---- MODULE Spec2Model ----
(***************************************************************************)
(* Model of src/channel.rs: the raw communication channel to the FUSE      *)
(* kernel driver (Channel, ChannelSender, with_fuse_args, real_path,       *)
(* unmount), together with the part of the operating system the code       *)
(* talks to: the process's descriptor table, the FUSE connections behind   *)
(* the descriptors, and the mount table.                                   *)
(***************************************************************************)
EXTENDS Integers, Sequences, FiniteSets, TLC

\* ------------------------------------------------------------------ bounds
\* Channels constructed during one run (each gets a fresh identity).
MaxChannels == 2
\* Size of the process's descriptor table.
MaxFds == 2
\* Caller threads.
MaxThreads == 2
\* ChannelSender handles alive at one time.
MaxSenders == 2
\* Requests the kernel queues on one connection.
MaxInq == 1
\* Capacity of a receive buffer, and length of a request of the kernel.
MaxCap == 2
MaxMsg == 2
\* with_fuse_args: number of options, and bytes per option.
MaxOpts == 2
MaxStrLen == 2

Chans == 1..MaxChannels
FDs == 3..(MaxFds + 2)
Threads == 1..MaxThreads
SenderIds == 1..MaxSenders

\* ------------------------------------------------------------ result values
\* Result<_, i32>: Ok carries a value, Err the errno (named, not numbered).
Ok(v) == [tag |-> "Ok", val |-> v]
Err(e) == [tag |-> "Err", val |-> e]
NoRes == [tag |-> "None", val |-> ""]

\* ------------------------------------------------------------ byte strings
RECURSIVE Concat(_)
\* The bytes of a sequence of byte strings, in order.
Concat(ss) == IF ss = << >> THEN << >> ELSE Head(ss) \o Concat(Tail(ss))

\* Byte strings of length at most n over alphabet A.
StrUpTo(A, n) == UNION {[1..k -> A] : k \in 0..n}

\* "rust-fuse" in ASCII.
RustFuse == <<114, 117, 115, 116, 45, 102, 117, 115, 101>>

\* ------------------------------------------------------------------- state
VARIABLES
    fdtable,   \* kernel: descriptor number -> connection it refers to (0: free)
    conns,     \* kernel: FUSE connections, by identity
    chans,     \* Channel values, by identity
    nchan,     \* identities handed out so far
    senders,   \* ChannelSender values
    th,        \* caller threads: the call each is in, and its last result
    wire,      \* the messages the kernel side was given since the last return
    argIn,     \* with_fuse_args driven alone: the options
    argPc,     \*   "start", "called" (f runs), "returned" or "panicked"
    argSeen,   \*   the fuse_args f was given
    argLive,   \*   the allocations alive: 0 the pointer array, i the i-th string
    macos      \* the platform the code was built for: cfg!(target_os = "macos")

vars == <<fdtable, conns, chans, nchan, senders, th, wire, argIn, argPc, argSeen, argLive,
         macos>>
chanVars == <<fdtable, conns, chans, nchan, senders, th, wire>>
argVars == <<argIn, argPc, argSeen, argLive>>

\* ---------------------------------------------------------- with_fuse_args
\* Bytes an option string is drawn from: NUL, an ASCII letter, and a byte
\* that is not valid UTF-8.
OptBytes == {0, 102, 255}

\* OsStr::to_str: Some only for valid UTF-8 (here: ASCII bytes).
ToStr(s) ==
    IF \A i \in 1..Len(s) : s[i] < 128 THEN Ok(s) ELSE Err("NotUtf8")

\* CString::new: an interior NUL is an error, otherwise a NUL is appended.
CStringNew(bytes) ==
    IF \E i \in 1..Len(bytes) : bytes[i] = 0
        THEN Err("NulError")
        ELSE Ok(bytes \o <<0>>)

RECURSIVE CStrToBytes(_)
\* CStr::from_ptr(p).to_bytes(): the bytes from p up to the first NUL.
CStrToBytes(mem) ==
    IF mem = << >> \/ Head(mem) = 0 THEN << >>
    ELSE <<Head(mem)>> \o CStrToBytes(Tail(mem))

\* with_fuse_args without the program name in front of the options.
with_fuse_args_no_name(options) ==
    LET conv(s) == IF ToStr(s).tag = "Err" THEN ToStr(s) ELSE CStringNew(ToStr(s).val)
        args == [i \in 1..Len(options) |-> conv(options[i])]
    IN  IF \E i \in 1..Len(args) : args[i].tag = "Err"
            THEN [panic |-> TRUE, argc |-> 0, argv |-> << >>, allocated |-> 0]
            ELSE LET argptrs == [i \in 1..Len(args) |-> args[i].val]
                 IN  [panic |-> FALSE, argc |-> Len(argptrs), argv |-> argptrs,
                      allocated |-> 0]

\* The fuse_args that with_fuse_args hands to f, or the panic of an unwrap.
\* A pointer of argv is modelled by the buffer it points to.
with_fuse_args(options) ==
    LET conv(s) == IF ToStr(s).tag = "Err" THEN ToStr(s) ELSE CStringNew(ToStr(s).val)
        args == <<CStringNew(RustFuse)>> \o [i \in 1..Len(options) |-> conv(options[i])]
    IN  IF \E i \in 1..Len(args) : args[i].tag = "Err"
            THEN [panic |-> TRUE, argc |-> 0, argv |-> << >>, allocated |-> 0]
            ELSE LET argptrs == [i \in 1..Len(args) |-> args[i].val]
                 IN  [panic |-> FALSE, argc |-> Len(argptrs), argv |-> argptrs,
                      allocated |-> 0]

\* What a consumer reads from a fuse_args: argc strings through argv.
ArgView(a) == [i \in 1..a.argc |-> CStrToBytes(a.argv[i])]

NoArgs == [panic |-> FALSE, argc |-> 0, argv |-> << >>, allocated |-> 0]

\* The strings built as temporaries that are gone before f is called.
args_owned_temporaries(a) == {0}

\* The allocations alive while f runs: the locals args (the strings) and
\* argptrs (the pointer array) of with_fuse_args own them until it returns.
args_owned(a) == 0..a.argc

\* ------------------------------------------------------------------ kernel
NoConn == [state |-> "none", path |-> "", inq |-> << >>]
NoChan == [state |-> "none", mountpoint |-> "", fd |-> -1, nclose |-> 0, nunmount |-> 0,
           umount |-> "", canon |-> "", upath |-> "", closed |-> {}]
NoSender == [fd |-> -1, origin |-> 0]
NoBuf == [cap |-> 0, len |-> 0, mem |-> << >>]
Idle == [pc |-> "idle", op |-> "none", chan |-> 0, fd |-> -1, step |-> 0,
         iov |-> << >>, bufs |-> << >>, buf |-> NoBuf, res |-> NoRes,
         rp |-> NoRes, rc |-> 0, stale |-> FALSE, delivered |-> << >>,
         sys |-> << >>, errno |-> "", buf0 |-> NoBuf]

\* One call of the code into libc or the mount facility, with its path.
Sys(call, arg) == [call |-> call, arg |-> arg]

\* The descriptor numbers that refer to nothing.
FreeFds == {f \in FDs : fdtable[f] = 0}

\* The connection a descriptor number refers to (0: none, EBADF).
File(fd) == IF fd \in FDs THEN fdtable[fd] ELSE 0

\* libc realpath over the filesystem tree of the model: "a" is a relative
\* name of the directory /a, and "gone" does not exist.
InPaths == {"a", "gone"}
MountPaths == {"/a"}
LibcRealpath(path) ==
    CASE path = "a" -> [null |-> FALSE, resolved |-> "/a", errno |-> ""]
      [] path = "/a" -> [null |-> FALSE, resolved |-> "/a", errno |-> ""]
      [] OTHER -> [null |-> TRUE, resolved |-> "", errno |-> "ENOENT"]

\* fuse_mount_compat25: a fresh descriptor, the lowest free number, on a new
\* connection mounted at mnt; or a negative value and errno.
MountOutcomes(mnt) ==
    IF FreeFds = {} THEN {[fd |-> -1, errno |-> "EMFILE"]}
    ELSE {[fd |-> -1, errno |-> "EPERM"],
          [fd |-> CHOOSE f \in FreeFds : \A g \in FreeFds : f <= g, errno |-> ""]}

\* The mount table after an unmount of path: the newest connection mounted
\* there goes away when the call succeeds (ok); a failed call changes nothing.
Unmounted(cs, path, ok) ==
    LET at == {k \in Chans : cs[k].state = "mounted" /\ cs[k].path = path}
    IN  IF ~ok \/ at = {} THEN cs
        ELSE LET k == CHOOSE x \in at : \A y \in at : y <= x
             IN  [cs EXCEPT ![k].state = "unmounted", ![k].inq = << >>]

\* Whether an unmount of path fails: the call is refused, or nothing is
\* mounted there.
UnmountFails(cs, path, ok) ==
    ~ok \/ ~\E k \in Chans : cs[k].state = "mounted" /\ cs[k].path = path

\* The descriptor table after close(fd): EBADF changes nothing.
Closed(tbl, fd) == IF fd \in FDs THEN [tbl EXCEPT ![fd] = 0] ELSE tbl

\* The connections once the descriptor table is tbl: a connection whose device
\* no descriptor refers to any more is aborted, its waiting requests fail.
Released(cs, tbl) ==
    [k \in Chans |->
        IF \E f \in FDs : tbl[f] = k THEN cs[k] ELSE [cs[k] EXCEPT !.inq = << >>]]

\* The connection an unmount of path is about: the newest one mounted there
\* (0: none).
UnmountTarget(cs, path) ==
    LET at == {k \in Chans : cs[k].state = "mounted" /\ cs[k].path = path}
    IN  IF at = {} THEN 0 ELSE CHOOSE x \in at : \A y \in at : y <= x

\* A synchronous unmount waits for the requests of its connection that wait
\* to be read from the device, which they do while a descriptor holds the
\* device open. The lazy unmount of fuse_unmount_compat22 waits for nothing.
UnmountWaits(sync, cs, tbl, path) ==
    LET k == UnmountTarget(cs, path)
    IN  /\ sync
        /\ k # 0
        /\ cs[k].inq # << >>
        /\ \E f \in FDs : tbl[f] = k

\* A finished call returns to its caller, which takes the result.
ret(t) ==
    /\ th[t].pc = "done"
    /\ th' = [th EXCEPT ![t] = Idle]
    /\ wire' = << >>
    /\ UNCHANGED <<fdtable, conns, chans, nchan, senders, argVars, macos>>

\* No finished call is waiting to return. A return touches nothing but the
\* returning thread, so it is taken before any other step.
Quiet == \A t \in Threads : th[t].pc # "done"

\* ------------------------------------------------------------ Channel::new
\* real_path: the errno when realpath returns NULL, else the resolved name.
real_path(path) ==
    LET r == LibcRealpath(path)
    IN  IF r.null THEN Err(r.errno) ELSE Ok(r.resolved)

\* The closure without its test of the descriptor.
new_closure_unchecked(fd, errno, mnt) == Ok([mountpoint |-> mnt, fd |-> fd])

\* The closure Channel::new runs on the mount's return value: Err(errno) for
\* a negative descriptor, else the Channel owning fd and the resolved path.
new_closure(fd, errno, mnt) ==
    IF fd < 0 THEN Err(errno)
    ELSE Ok([mountpoint |-> mnt, fd |-> fd])

\* The mount issued on the path as the caller gave it.
mount_arg_unresolved(path, mnt) == path

\* The path Channel::new hands to the mount: the resolved one (mnt.as_ptr()).
mount_arg(path, mnt) == mnt

\* The Channel keeping the path as the caller gave it.
channel_path_unresolved(path, mnt) == path

\* The path the Channel keeps: the resolved one, converted to a PathBuf.
channel_path(path, mnt) == mnt

\* Channel::new(mountpoint, options), called by thread t.
new(t, path, options) ==
    /\ Quiet
    /\ th[t].pc = "idle"
    /\ nchan < MaxChannels
    /\ LET rp == real_path(path)
           call == [Idle EXCEPT !.pc = "done", !.op = "new", !.rp = rp,
                                !.sys = <<Sys("realpath", path)>>]
       IN  IF rp.tag = "Err"
           THEN /\ th' = [th EXCEPT ![t] = [call EXCEPT !.res = rp]]
                /\ UNCHANGED <<fdtable, conns, chans, nchan>>
           ELSE IF with_fuse_args(options).panic
           THEN /\ th' = [th EXCEPT ![t] = [call EXCEPT !.pc = "panicked"]]
                /\ UNCHANGED <<fdtable, conns, chans, nchan>>
           ELSE \E o \in MountOutcomes(mount_arg(path, rp.val)) :
                LET id == nchan + 1
                    r == new_closure(o.fd, o.errno, rp.val)
                IN  /\ fdtable' = IF o.fd >= 0 THEN [fdtable EXCEPT ![o.fd] = id]
                                  ELSE fdtable
                    /\ conns' = IF o.fd >= 0
                                THEN [conns EXCEPT ![id] =
                                        [NoConn EXCEPT !.state = "mounted",
                                                       !.path = mount_arg(path, rp.val)]]
                                ELSE conns
                    /\ chans' = IF r.tag = "Ok"
                                THEN [chans EXCEPT ![id] =
                                        [NoChan EXCEPT !.state = "live",
                                                       !.mountpoint =
                                                           channel_path(path, r.val.mountpoint),
                                                       !.canon = rp.val,
                                                       !.fd = r.val.fd]]
                                ELSE chans
                    /\ nchan' = IF o.fd >= 0 \/ r.tag = "Ok" THEN id ELSE nchan
                    /\ th' = [th EXCEPT ![t] =
                                [call EXCEPT !.rc = o.fd,
                                             !.errno = o.errno,
                                             !.sys = Append(@, Sys("mount",
                                                               mount_arg(path, rp.val))),
                                             !.chan = IF r.tag = "Ok" THEN id ELSE 0,
                                             !.res = IF r.tag = "Ok" THEN Ok("") ELSE r]]
    /\ UNCHANGED <<senders, wire, argVars, macos>>

\* Channel::mountpoint: the path the Channel keeps.
mountpoint(t, c) ==
    /\ Quiet
    /\ th[t].pc = "idle"
    /\ chans[c].state = "live"
    /\ th' = [th EXCEPT ![t] =
                [Idle EXCEPT !.pc = "done", !.op = "mountpoint", !.chan = c,
                             !.res = Ok(chans[c].mountpoint)]]
    /\ UNCHANGED <<fdtable, conns, chans, nchan, senders, wire, argVars, macos>>

\* ------------------------------------------------------- unmount and Drop
\* unmount(mountpoint): on either platform one unmount of the given path,
\* whose outcome is not looked at.
unmount(cs, mnt, ok) == Unmounted(cs, mnt, ok)

\* Whether the call unmount makes is the synchronous one: libc::unmount(mnt, 0)
\* on macOS, the lazy fuse_unmount_compat22 elsewhere.
unmount_sync == macos

\* The free function unmount, called on a path by some thread.
free_unmount(path, ok) ==
    /\ Quiet
    /\ \E t \in Threads : th[t].pc = "idle"
    /\ ~UnmountWaits(unmount_sync, conns, fdtable, path)
    /\ conns' = unmount(conns, path, ok)
    /\ UNCHANGED <<fdtable, chans, nchan, senders, th, wire, argVars, macos>>

\* drop with the unmount issued before the close.
drop_steps_unmount_first == <<"unmount", "close">>

\* drop that forgets to close the descriptor.
drop_steps_no_close == <<"unmount">>

\* drop that closes the descriptor a second time.
drop_steps_close_twice == <<"close", "close", "unmount">>

\* Drop for Channel: the calls drop makes, in order.
drop_steps == <<"close", "unmount">>

\* drop that issues the unmount again when it failed.
drop_retries(i, failed) == IF failed THEN i ELSE i + 1

\* The call drop goes on with after call i: the next one, whatever call i
\* returned (no return value is looked at).
drop_goes_on(i, failed) == i + 1

\* The path drop hands to unmount: the one the Channel keeps.
drop_unmount_arg(ch) == ch.mountpoint

\* One call of drop on Channel c; ok is the outcome of an unmount. The
\* synchronous unmount is made only once it does not have to wait.
DropStep(t, c, i, ok) ==
    LET call == drop_steps[i]
        mnt == drop_unmount_arg(chans[c])
        failed == call = "unmount" /\ UnmountFails(conns, mnt, ok)
        nxt == drop_goes_on(i, failed)
        sofar == IF th[t].pc = "drop" THEN th[t].sys ELSE << >>
        now == Append(sofar, Sys(call, IF call = "unmount" THEN mnt ELSE ""))
    IN
    /\ call = "unmount" => ~UnmountWaits(unmount_sync, conns, fdtable, mnt)
    /\ IF call = "close"
       THEN /\ fdtable' = Closed(fdtable, chans[c].fd)
            /\ conns' = Released(conns, fdtable')
       ELSE /\ conns' = unmount(conns, mnt, ok)
            /\ fdtable' = fdtable
    /\ chans' = [chans EXCEPT
                   ![c].nclose = @ + (IF call = "close" THEN 1 ELSE 0),
                   ![c].closed = IF call = "close" /\ File(chans[c].fd) # 0
                                 THEN @ \cup {File(chans[c].fd)} ELSE @,
                   ![c].nunmount = @ + (IF call = "unmount" THEN 1 ELSE 0),
                   ![c].upath = IF call = "unmount" THEN mnt ELSE @,
                   ![c].umount = IF call # "unmount" THEN @
                                 ELSE IF failed THEN "failed" ELSE "done",
                   ![c].state = IF nxt > Len(drop_steps) THEN "dead" ELSE "dropping"]
    /\ th' = [th EXCEPT ![t] =
                IF nxt > Len(drop_steps)
                THEN [Idle EXCEPT !.op = "drop", !.chan = c, !.pc = "done", !.sys = now]
                ELSE [Idle EXCEPT !.op = "drop", !.chan = c, !.pc = "drop",
                                  !.step = nxt, !.sys = now]]
    /\ UNCHANGED <<nchan, senders, wire, argVars, macos>>

\* A thread holds a shared borrow of Channel c while it is inside receive.
Borrowed(c) == \E t \in Threads : th[t].pc = "read" /\ th[t].chan = c

\* The owner lets go of Channel c: drop starts, which needs c unborrowed.
drop(t, c, ok) ==
    /\ Quiet
    /\ th[t].pc = "idle"
    /\ chans[c].state = "live"
    /\ ~Borrowed(c)
    /\ DropStep(t, c, 1, ok)

\* drop goes on with its next call.
drop_next(t, ok) ==
    /\ Quiet
    /\ th[t].pc = "drop"
    /\ DropStep(t, th[t].chan, th[t].step, ok)

\* The kernel queues a request on a mounted connection whose device is open.
InMsgs == {[i \in 1..n |-> i] : n \in 1..MaxMsg}
kernel_request(k, msg) ==
    /\ Quiet
    /\ conns[k].state = "mounted"
    /\ \E f \in FDs : fdtable[f] = k
    /\ Len(conns[k].inq) < MaxInq
    /\ conns' = [conns EXCEPT ![k].inq = Append(@, msg)]
    /\ UNCHANGED <<fdtable, chans, nchan, senders, th, wire, argVars, macos>>

\* -------------------------------------------------------- Channel::receive
\* receive is entered: the read on the Channel's descriptor is issued with
\* the buffer's capacity as count, and may block.
receive_call(t, c, cap, len) ==
    /\ Quiet
    /\ th[t].pc = "idle"
    /\ chans[c].state = "live"
    /\ th' = [th EXCEPT ![t] =
                [Idle EXCEPT !.pc = "read", !.op = "receive", !.chan = c,
                             !.fd = chans[c].fd,
                             !.sys = <<Sys("read", "")>>,
                             !.buf = [cap |-> cap, len |-> len,
                                      mem |-> [i \in 1..cap |-> 0]],
                             !.buf0 = [cap |-> cap, len |-> len,
                                       mem |-> [i \in 1..cap |-> 0]]]]
    /\ UNCHANGED <<fdtable, conns, chans, nchan, senders, wire, argVars, macos>>

\* The kernel's copy of data to the start of the buffer's storage.
ReadInto(buf, data) ==
    [buf EXCEPT !.mem = data \o SubSeq(buf.mem, Len(data) + 1, buf.cap)]

\* receive that sets the length to the capacity instead of the return value.
receive_result_capacity(buf, rc, errno) ==
    IF rc < 0 THEN [res |-> Err(errno), buf |-> buf]
    ELSE [res |-> Ok(""), buf |-> [buf EXCEPT !.len = buf.cap]]

\* receive that empties the buffer when the read failed.
receive_result_clears(buf, rc, errno) ==
    IF rc < 0 THEN [res |-> Err(errno), buf |-> [buf EXCEPT !.len = 0]]
    ELSE [res |-> Ok(""), buf |-> [buf EXCEPT !.len = rc]]

\* What receive does with the read's return value: Err(errno) when negative,
\* else set_len(rc) and Ok.
receive_result(buf, rc, errno) ==
    IF rc < 0 THEN [res |-> Err(errno), buf |-> buf]
    ELSE [res |-> Ok(""), buf |-> [buf EXCEPT !.len = rc]]

\* receive that issues the read again when it failed.
read_again_on_error(buf, rc, errno) == rc < 0

\* receive that reads on until the buffer is full.
read_again_until_full(buf, rc, errno) == rc >= 0 /\ rc < buf.cap

\* Whether receive issues another read after one came back: it has no loop.
read_again(buf, rc, errno) == FALSE

\* The read of a receive comes back: with an error when the descriptor is
\* bad or the connection is gone, with the next request when one is queued.
\* A request larger than the count is failed by the kernel and the read
\* goes on waiting.
receive(t) ==
    /\ Quiet
    /\ th[t].pc = "read"
    /\ LET k == File(th[t].fd)
           back(buf, rc, e, msgs) ==
               LET r == receive_result(buf, rc, e)
                   again == read_again(buf, rc, e)
               IN  th' = [th EXCEPT ![t] =
                            [@ EXCEPT !.pc = IF again THEN "read" ELSE "done",
                                      !.rc = rc, !.errno = e,
                                      !.res = IF again THEN NoRes ELSE r.res,
                                      !.buf = r.buf,
                                      !.delivered = @ \o msgs,
                                      !.sys = IF again THEN Append(@, Sys("read", ""))
                                              ELSE @]]
       IN  IF k = 0 THEN back(th[t].buf, -1, "EBADF", << >>) /\ conns' = conns
           ELSE IF conns[k].state # "mounted"
                THEN back(th[t].buf, -1, "ENODEV", << >>) /\ conns' = conns
           ELSE /\ conns[k].inq # << >>
                /\ LET msg == Head(conns[k].inq)
                   IN  /\ conns' = [conns EXCEPT ![k].inq = Tail(@)]
                       /\ IF Len(msg) > th[t].buf.cap THEN th' = th
                          ELSE back(ReadInto(th[t].buf, msg), Len(msg), "", <<msg>>)
    /\ UNCHANGED <<fdtable, chans, nchan, senders, wire, argVars, macos>>

\* --------------------------------------------------------- ChannelSender
\* The lowest free ChannelSender slot.
FreeSlot(i) == senders[i] = NoSender /\ \A j \in 1..(i - 1) : senders[j] # NoSender

\* Channel::sender: a ChannelSender holding a copy of the descriptor number.
sender(c, i) ==
    /\ Quiet
    /\ \E t \in Threads : th[t].pc = "idle"
    /\ chans[c].state = "live"
    /\ FreeSlot(i)
    /\ senders' = [senders EXCEPT ![i] = [fd |-> chans[c].fd, origin |-> c]]
    /\ UNCHANGED <<fdtable, conns, chans, nchan, th, wire, argVars, macos>>

\* derive(Copy): a ChannelSender is copied.
copy_sender(i, j) ==
    /\ Quiet
    /\ senders[i] # NoSender
    /\ FreeSlot(j)
    /\ senders' = [senders EXCEPT ![j] = senders[i]]
    /\ UNCHANGED <<fdtable, conns, chans, nchan, th, wire, argVars, macos>>

\* A ChannelSender that closes its descriptor when it goes away.
sender_dropped_closes(tbl, s) == Closed(tbl, s.fd)

\* The descriptor table after a ChannelSender goes away: it has no Drop.
sender_dropped(tbl, s) == tbl

\* A ChannelSender is discarded.
discard_sender(i) ==
    /\ Quiet
    /\ senders[i] # NoSender
    /\ senders' = [senders EXCEPT ![i] = NoSender]
    /\ fdtable' = sender_dropped(fdtable, senders[i])
    /\ UNCHANGED <<conns, chans, nchan, th, wire, argVars, macos>>

\* The buffer lists send is called with: a header and a payload.
SendBufs == {<< <<1>>, <<2>> >>, << <<2>>, <<1>> >>}

\* An iovec array of the first buffer only.
iovecs_first_only(buffer) ==
    <<[iov_base |-> buffer[1], iov_len |-> Len(buffer[1])]>>

\* The iovec array send builds: one entry per buffer, base and length.
iovecs(buffer) ==
    [i \in 1..Len(buffer) |-> [iov_base |-> buffer[i], iov_len |-> Len(buffer[i])]]

\* The bytes a vectored write gathers from an iovec array.
Gather(iov) == Concat([i \in 1..Len(iov) |-> SubSeq(iov[i].iov_base, 1, iov[i].iov_len)])

\* send with one write per buffer.
writev_calls_per_buffer(iov) == [i \in 1..Len(iov) |-> <<iov[i]>>]

\* The write calls send issues for its iovec array: one writev of all of it.
writev_calls(iov) == <<iov>>

\* What send does with the write's return value.
send_result(rc, errno) == IF rc < 0 THEN Err(errno) ELSE Ok("")

\* send is entered through ChannelSender i with the buffers bufs.
send_call(t, i, bufs) ==
    /\ Quiet
    /\ th[t].pc = "idle"
    /\ senders[i] # NoSender
    /\ th' = [th EXCEPT ![t] =
                [Idle EXCEPT !.pc = "writev", !.op = "send", !.fd = senders[i].fd,
                             !.chan = senders[i].origin, !.bufs = bufs,
                             !.iov = writev_calls(iovecs(bufs)),
                             !.stale = (chans[senders[i].origin].state = "dead")]]
    /\ UNCHANGED <<fdtable, conns, chans, nchan, senders, wire, argVars, macos>>

\* A write of send is carried out: the device takes the gathered bytes as
\* one message (accept) or rejects the whole write; a bad descriptor and a
\* connection that is gone are errors. send returns after its last write or
\* its first failed one.
send(t, accept) ==
    /\ Quiet
    /\ th[t].pc = "writev"
    /\ LET k == File(th[t].fd)
           msg == Gather(Head(th[t].iov))
           errno == IF k = 0 THEN "EBADF"
                    ELSE IF conns[k].state # "mounted" THEN "ENODEV"
                    ELSE IF ~accept THEN "EINVAL" ELSE ""
           rc == IF errno = "" THEN Len(msg) ELSE -1
           last == rc < 0 \/ Len(th[t].iov) = 1
       IN  /\ wire' = IF rc >= 0 THEN Append(wire, [conn |-> k, msg |-> msg])
                      ELSE wire
           /\ th' = [th EXCEPT ![t] =
                       [@ EXCEPT !.pc = IF last THEN "done" ELSE "writev",
                                 !.iov = IF last THEN << >> ELSE Tail(@),
                                 !.rc = rc, !.errno = errno,
                                 !.sys = Append(@, Sys("writev", "")),
                                 !.res = IF last THEN send_result(rc, errno) ELSE NoRes]]
    /\ UNCHANGED <<fdtable, conns, chans, nchan, senders, argVars, macos>>

\* ------------------------------------------------------------ specification
\* The options Channel::new is called with: one good list, one with a NUL.
NewOptions == {<< <<102>> >>, << <<102, 0>> >>}

ArgIdle == argIn = << >> /\ argPc = "start" /\ argSeen = NoArgs /\ argLive = {}

Init ==
    /\ fdtable = [f \in FDs |-> 0]
    /\ conns = [k \in Chans |-> NoConn]
    /\ chans = [c \in Chans |-> NoChan]
    /\ nchan = 0
    /\ senders = [i \in SenderIds |-> NoSender]
    /\ th = [t \in Threads |-> Idle]
    /\ wire = << >>
    /\ macos \in BOOLEAN
    /\ ArgIdle

Next ==
    \/ \E t \in Threads, path \in InPaths, options \in NewOptions : new(t, path, options)
    \/ \E t \in Threads, c \in Chans : mountpoint(t, c)
    \/ \E path \in MountPaths, ok \in BOOLEAN : free_unmount(path, ok)
    \/ \E t \in Threads, c \in Chans, ok \in BOOLEAN : drop(t, c, ok)
    \/ \E t \in Threads, ok \in BOOLEAN : drop_next(t, ok)
    \/ \E k \in Chans, msg \in InMsgs : kernel_request(k, msg)
    \/ \E t \in Threads, c \in Chans, cap \in 1..MaxCap :
            \E len \in {0, cap} : receive_call(t, c, cap, len)
    \/ \E t \in Threads : receive(t)
    \/ \E c \in Chans, i \in SenderIds : sender(c, i)
    \/ \E i, j \in SenderIds : copy_sender(i, j)
    \/ \E i \in SenderIds : discard_sender(i)
    \/ \E t \in Threads, i \in SenderIds, bufs \in SendBufs : send_call(t, i, bufs)
    \/ \E t \in Threads, accept \in BOOLEAN : send(t, accept)
    \/ \E t \in Threads : ret(t)

Spec == Init /\ [][Next]_vars

\* with_fuse_args alone, on every list of at most MaxOpts options of at most
\* MaxStrLen bytes.
ArgsInit ==
    /\ fdtable = [f \in FDs |-> 0]
    /\ conns = [k \in Chans |-> NoConn]
    /\ chans = [c \in Chans |-> NoChan]
    /\ nchan = 0
    /\ senders = [i \in SenderIds |-> NoSender]
    /\ th = [t \in Threads |-> Idle]
    /\ wire = << >>
    /\ argIn \in StrUpTo(StrUpTo(OptBytes, MaxStrLen), MaxOpts)
    /\ argPc = "start"
    /\ argSeen = NoArgs
    /\ argLive = {}
    /\ macos = FALSE

\* with_fuse_args(options, f) runs: f is called with the fuse_args, unless an
\* unwrap panics first.
args_call ==
    /\ argPc = "start"
    /\ LET a == with_fuse_args(argIn)
       IN  /\ argPc' = IF a.panic THEN "panicked" ELSE "called"
           /\ argSeen' = IF a.panic THEN argSeen ELSE a
           /\ argLive' = IF a.panic THEN {} ELSE args_owned(a)
    /\ UNCHANGED <<argIn, chanVars, macos>>

\* f returns and with_fuse_args ends: its locals are dropped.
args_return ==
    /\ argPc = "called"
    /\ argPc' = "returned"
    /\ argLive' = {}
    /\ UNCHANGED <<argIn, argSeen, chanVars, macos>>

ArgsNext == args_call \/ args_return

SpecArgs == ArgsInit /\ [][ArgsNext]_vars

\* ------------------------------------------------------------------ claims
\* The descriptor Channel c got from its mount is open: its number still
\* refers to c's connection.
DescriptorOpen(c) == File(chans[c].fd) = c

SendDone(t) == th[t].pc = "done" /\ th[t].op = "send"
ReceiveDone(t) == th[t].pc = "done" /\ th[t].op = "receive"
NewDone(t) == th[t].pc = "done" /\ th[t].op = "new"

\* C1: in every teardown the descriptor is closed before the unmount is
\* issued: once drop has issued its unmount the Channel's descriptor is
\* closed, and it is closed after a teardown whose unmount failed.
C1_CloseBeforeUnmount ==
    \A c \in Chans :
        /\ chans[c].nunmount > 0 => (chans[c].nclose > 0 /\ ~DescriptorOpen(c))
        /\ chans[c].state = "dead" => ~DescriptorOpen(c)

\* A teardown has finished whose unmount failed.
C1_Witness ==
    \E c \in Chans :
        /\ chans[c].state = "dead"
        /\ chans[c].umount = "failed"
        /\ chans[c].nclose = 1

\* C2: a send through a ChannelSender whose Channel had been torn down when
\* send was called returns the bad-descriptor error, whatever happened in
\* between.
C2_StaleSendIsEBADF ==
    \A t \in Threads :
        (SendDone(t) /\ th[t].stale) => th[t].res = Err("EBADF")

\* C3: every message the kernel side is given is the in-order concatenation
\* of the buffers of one send call whose write was taken; no message holds
\* a part of a call's buffers or bytes of two calls.
C3_MessagesAreWholeSends ==
    \A i \in 1..Len(wire) :
        \E t \in Threads :
            /\ SendDone(t)
            /\ th[t].res.tag = "Ok"
            /\ wire[i].msg = Concat(th[t].bufs)

\* Two send calls with different buffers are in flight on one descriptor,
\* and the write of one of them has been taken.
C3_Witness ==
    \E t, u \in Threads :
        /\ SendDone(t) /\ th[t].res.tag = "Ok"
        /\ th[u].op = "send" /\ th[u].pc = "writev"
        /\ th[u].fd = th[t].fd
        /\ th[u].bufs # th[t].bufs
        /\ wire # << >>

\* C4: a send of [h, p] that returns Ok has given the kernel side exactly
\* one message, h followed by p, complete.
C4_OkSendDeliversAll ==
    \A t \in Threads :
        (SendDone(t) /\ th[t].res.tag = "Ok") =>
            /\ Len(wire) = 1
            /\ wire[1].msg = th[t].bufs[1] \o th[t].bufs[2]

\* A send of a header and a payload has returned Ok.
C4_Witness ==
    \E t \in Threads :
        /\ SendDone(t) /\ th[t].res.tag = "Ok"
        /\ Len(th[t].bufs) = 2
        /\ th[t].bufs[1] # << >> /\ th[t].bufs[2] # << >>

\* C5: a Channel::new whose path resolution failed or whose mount returned
\* a negative value returns Err and makes no Channel; every open descriptor
\* belongs to a live Channel; close and unmount are run by teardown only for
\* Channels that came out of a successful mount.
C5_FailedNewLeavesNothing ==
    /\ \A t \in Threads :
          (NewDone(t) /\ (th[t].rp.tag = "Err" \/ th[t].rc < 0)) =>
              (th[t].res.tag = "Err" /\ th[t].chan = 0)
    /\ \A f \in FDs :
          fdtable[f] # 0 =>
              (chans[fdtable[f]].state = "live" /\ chans[fdtable[f]].fd = f)
    /\ \A c \in Chans :
          chans[c].nclose + chans[c].nunmount > 0 => conns[c].state # "none"
    /\ Cardinality({c \in Chans : chans[c].state # "none"}) = nchan

\* A mount has failed while another Channel is live, and a path resolution
\* has failed.
C5_Witness ==
    /\ \E t \in Threads : NewDone(t) /\ th[t].rc < 0 /\ th[t].res = Err("EPERM")
    /\ \E c \in Chans : chans[c].state = "live"

\* C6: a Channel is torn down at most once, a finished teardown has closed
\* the descriptor once and issued the unmount once, and from construction
\* to the start of teardown the descriptor is open.
C6_TornDownOnce ==
    \A c \in Chans :
        /\ chans[c].nclose <= 1
        /\ chans[c].nunmount <= 1
        /\ chans[c].state = "dead" => (chans[c].nclose = 1 /\ chans[c].nunmount = 1)
        /\ chans[c].state = "live" =>
              (chans[c].nclose = 0 /\ chans[c].nunmount = 0 /\ DescriptorOpen(c))

\* One Channel has been torn down and a later one, on the same descriptor
\* number, is live.
C6_Witness ==
    \E c, d \in Chans :
        /\ chans[c].state = "dead"
        /\ chans[d].state = "live"
        /\ chans[d].fd = chans[c].fd

\* A step of sender(), of a copy or a discard of a ChannelSender, or of send.
SenderStep ==
    \/ senders' # senders
    \/ \E t \in Threads : th'[t] # th[t] /\ th'[t].op = "send"

\* C7: sender(), copying and discarding ChannelSenders, and send leave the
\* descriptor table, every Channel (descriptor, mount path, state) and the
\* mount table as they are.
C7_SendersCloseNothing ==
    [][SenderStep =>
         /\ fdtable' = fdtable
         /\ chans' = chans
         /\ \A k \in Chans : conns'[k].state = conns[k].state /\ conns'[k].path = conns[k].path
      ]_vars

\* A send has failed on a live, mounted Channel of which two ChannelSenders
\* exist, and the descriptor is open.
C7_Witness ==
    \E t \in Threads, i, j \in SenderIds :
        /\ SendDone(t) /\ th[t].res = Err("EINVAL")
        /\ i # j /\ senders[i] = senders[j] /\ senders[i].origin = th[t].chan
        /\ chans[th[t].chan].state = "live"
        /\ DescriptorOpen(th[t].chan)
        /\ conns[th[t].chan].state = "mounted"

\* C8 (not settled): no receive is in flight while its Channel is torn down,
\* because receive borrows the Channel and drop needs it unborrowed.
ReceiveNeverSpansTeardown ==
    \A t \in Threads :
        th[t].pc = "read" => chans[th[t].chan].state = "live"

\* C9: a receive that finds a request of K bytes, K at most the capacity,
\* returns Ok with the buffer holding those K bytes and length K; after a
\* successful receive the length is at most the capacity.
C9_ReceiveFillsExactly ==
    \A t \in Threads :
        /\ (ReceiveDone(t) /\ th[t].delivered # << >>) =>
              /\ th[t].res.tag = "Ok"
              /\ th[t].buf.len = Len(th[t].delivered[1])
              /\ SubSeq(th[t].buf.mem, 1, th[t].buf.len) = th[t].delivered[1]
        /\ (ReceiveDone(t) /\ th[t].res.tag = "Ok") =>
              /\ th[t].delivered # << >>
              /\ th[t].buf.len <= th[t].buf.cap

\* A receive has returned a request shorter than the capacity.
C9_Witness ==
    \E t \in Threads :
        /\ ReceiveDone(t) /\ th[t].res.tag = "Ok"
        /\ th[t].buf.len = 1 /\ th[t].buf.cap = 2

\* Every option is valid UTF-8 and holds no NUL byte.
OptionsConvert(options) ==
    \A i \in 1..Len(options) :
        \A j \in 1..Len(options[i]) : options[i][j] # 0 /\ options[i][j] < 128

\* The consumer was given the program name and then the options, in order.
ArgsPresented ==
    /\ argPc \in {"called", "returned"}
    /\ argSeen.argc = Len(argIn) + 1
    /\ ArgView(argSeen) = <<RustFuse>> \o argIn

\* C10 as stated: for any sequence of N options the consumer is given the
\* N+1 arguments.
C10_AnyOptionsPresented == argPc # "start" => ArgsPresented

\* C10 as amended: the consumer is given the N+1 arguments for any sequence
\* of options that are valid UTF-8 without NUL; for any other sequence
\* with_fuse_args panics and the consumer is not called.
C10_ConvertibleOptionsPresented ==
    /\ (argPc # "start" /\ OptionsConvert(argIn)) => ArgsPresented
    /\ argPc \in {"called", "returned"} => ArgsPresented
    /\ (argPc # "start" /\ ~OptionsConvert(argIn)) => argPc = "panicked"

\* The consumer was given two different options.
C10_Witness ==
    /\ argPc = "called"
    /\ Len(argIn) = 2
    /\ argIn[1] # argIn[2]
    /\ argIn[1] # << >>

MountpointDone(t) == th[t].pc = "done" /\ th[t].op = "mountpoint"
DropDone(t) == th[t].pc = "done" /\ th[t].op = "drop"

\* C11: the canonical path is computed once, in Channel::new: the Channel
\* keeps the value real_path returned then for all its life, mountpoint()
\* returns it, the unmount of the teardown is issued on it, and no call but
\* new resolves a path.
C11_PathResolvedOnce ==
    /\ \A c \in Chans :
        /\ chans[c].state # "none" => chans[c].mountpoint = chans[c].canon
        /\ chans[c].nunmount > 0 => chans[c].upath = chans[c].canon
    /\ \A t \in Threads :
        /\ MountpointDone(t) => th[t].res = Ok(chans[th[t].chan].canon)
        /\ \A i \in 1..Len(th[t].sys) :
              th[t].sys[i].call = "realpath" => (th[t].op = "new" /\ i = 1)

\* mountpoint() returns the resolved path of one Channel after another
\* Channel's teardown has issued its unmount on its own resolved path.
C11_Witness ==
    \E t \in Threads, c \in Chans :
        /\ MountpointDone(t)
        /\ th[t].res = Ok("/a")
        /\ chans[c].state = "dead"
        /\ chans[c].upath = "/a"

\* C12: Channel::new resolves the path first; the mount is issued only when
\* that succeeded, and on the resolved path; when it failed new returns
\* realpath's error code and issues no mount.
C12_MountAfterResolution ==
    /\ \A t \in Threads :
          th[t].op = "new" =>
            /\ th[t].sys[1].call = "realpath"
            /\ th[t].rp = real_path(th[t].sys[1].arg)
            /\ \A i \in 1..Len(th[t].sys) :
                  th[t].sys[i].call = "mount" =>
                      /\ i = 2
                      /\ th[t].rp.tag = "Ok"
                      /\ th[t].sys[i].arg = th[t].rp.val
            /\ th[t].rp.tag = "Err" =>
                  /\ Len(th[t].sys) = 1
                  /\ th[t].res = Err(LibcRealpath(th[t].sys[1].arg).errno)
    /\ \A k \in Chans : conns[k].state # "none" => conns[k].path = chans[k].canon

\* new has mounted on a resolved path that differs from the path it was
\* called with.
C12_Witness ==
    \E t \in Threads :
        /\ NewDone(t)
        /\ th[t].res.tag = "Ok"
        /\ th[t].sys = <<Sys("realpath", "a"), Sys("mount", "/a")>>
        /\ conns[th[t].chan].path = "/a"

\* C13: a failed unmount in the teardown shows nowhere: the teardown is
\* over with that one unmount, drop produces no value, and no call is made
\* on the Channel afterwards.
C13_UnmountFailureUnseen ==
    /\ \A c \in Chans :
          chans[c].umount = "failed" =>
            /\ chans[c].state = "dead"
            /\ chans[c].nunmount = 1
            /\ \A t \in Threads :
                  (th[t].pc # "idle" /\ th[t].chan = c) => th[t].op \in {"drop", "send"}
    /\ \A t \in Threads : th[t].op = "drop" => th[t].res = NoRes

\* A teardown has returned whose unmount was refused: the filesystem is
\* still mounted.
C13_Witness ==
    \E t \in Threads :
        /\ DropDone(t)
        /\ chans[th[t].chan].umount = "failed"
        /\ conns[th[t].chan].state = "mounted"

\* C14: two live Channels never hold the same descriptor, the descriptor
\* of a live Channel is open on its own connection, and the close of a
\* teardown closes no descriptor but the one its Channel got from its mount.
C14_OwnDescriptorOnly ==
    /\ \A c, d \in Chans :
          (c # d /\ chans[c].state = "live" /\ chans[d].state = "live")
              => chans[c].fd # chans[d].fd
    /\ \A c \in Chans : chans[c].state = "live" => DescriptorOpen(c)
    /\ \A c \in Chans : chans[c].closed \subseteq {c}

\* A Channel was torn down while another one, on another descriptor, lives.
C14_Witness ==
    \E c, d \in Chans :
        /\ chans[c].state = "dead"
        /\ chans[c].closed = {c}
        /\ chans[d].state = "live"
        /\ chans[d].fd # chans[c].fd

\* The teardown thread t runs is about to issue its unmount.
DropAtUnmount(t) == th[t].pc = "drop" /\ drop_steps[th[t].step] = "unmount"

\* C15: a teardown never has to wait: when drop is about to issue its
\* unmount, that unmount does not wait for a request that itself waits to be
\* read from a descriptor still open.
C15_TeardownNeverWaits ==
    \A t \in Threads :
        DropAtUnmount(t) =>
            ~UnmountWaits(unmount_sync, conns, fdtable, drop_unmount_arg(chans[th[t].chan]))

\* The unmount of a teardown never waits for a request of the Channel's own
\* connection: its descriptor is closed and its requests have failed.
TeardownNeverWaitsOnOwn ==
    \A t \in Threads :
        DropAtUnmount(t) =>
            /\ ~DescriptorOpen(th[t].chan)
            /\ conns[th[t].chan].inq = << >>
            /\ UnmountWaits(unmount_sync, conns, fdtable, drop_unmount_arg(chans[th[t].chan]))
                  => UnmountTarget(conns, drop_unmount_arg(chans[th[t].chan])) # th[t].chan

\* C16: when its read returns a negative value, receive returns Err with
\* the error code of that read, and the buffer is as it was passed in,
\* length and contents.
C16_FailedReadLeavesBuffer ==
    \A t \in Threads :
        (ReceiveDone(t) /\ th[t].rc < 0) =>
            /\ th[t].errno \in {"EBADF", "ENODEV"}
            /\ th[t].res = Err(th[t].errno)
            /\ th[t].buf = th[t].buf0

\* A receive has failed on a buffer that was passed in full.
C16_Witness ==
    \E t \in Threads :
        /\ ReceiveDone(t)
        /\ th[t].res = Err("ENODEV")
        /\ th[t].buf0.len = MaxCap

\* C17: with receive calls of several threads on one Channel, a receive
\* that succeeds takes the request at the head of the queue off the queue
\* and returns that one request and nothing else; the step changes no other
\* thread's call, so no request reaches two receivers.
C17_OneMessageOneReceive ==
    [][\A t \in Threads :
          (th[t].pc = "read" /\ th'[t].pc = "done" /\ th'[t].rc >= 0) =>
              LET k == File(th[t].fd)
              IN  /\ k # 0
                  /\ conns[k].inq # << >>
                  /\ conns'[k].inq = Tail(conns[k].inq)
                  /\ th'[t].delivered = <<Head(conns[k].inq)>>
                  /\ SubSeq(th'[t].buf.mem, 1, th'[t].buf.len) = Head(conns[k].inq)
                  /\ \A u \in Threads \ {t} : th'[u] = th[u]]_vars

\* Of two receive calls on the same Channel one has got the request while
\* the other one still waits.
C17_Witness ==
    \E t, u \in Threads :
        /\ t # u
        /\ ReceiveDone(t)
        /\ th[t].res.tag = "Ok"
        /\ Len(th[t].delivered) = 1
        /\ th[u].pc = "read"
        /\ th[u].chan = th[t].chan

\* C18: nothing is retried: a receive issues one read and a send one
\* writev, whatever they return, and the call's result is the result of that
\* one call.
C18_OneCallNoRetry ==
    \A t \in Threads :
        /\ th[t].op = "receive" => th[t].sys = <<Sys("read", "")>>
        /\ th[t].op = "send" =>
              /\ Len(th[t].sys) <= 1
              /\ th[t].pc = "done" => th[t].sys = <<Sys("writev", "")>>
        /\ (ReceiveDone(t) \/ SendDone(t)) =>
              th[t].res = IF th[t].rc < 0 THEN Err(th[t].errno) ELSE Ok("")

\* A send has returned the error of its one rejected write.
C18_Witness ==
    \E t \in Threads :
        /\ SendDone(t)
        /\ th[t].res = Err("EINVAL")
        /\ th[t].sys = <<Sys("writev", "")>>

\* C19: while the consumer f runs, the strings behind every pointer of argv
\* and the pointer array are allocated; they are released once f has
\* returned, and nothing is allocated when with_fuse_args panics.
C19_ArgsOutliveCall ==
    /\ argPc = "called" =>
          /\ argSeen.argc = Len(argSeen.argv)
          /\ \A i \in 0..argSeen.argc : i \in argLive
    /\ argPc \in {"start", "returned", "panicked"} => argLive = {}

\* The consumer runs on the program name and two options, all allocated.
C19_Witness ==
    /\ argPc = "called"
    /\ Len(argIn) = 2
    /\ argLive = 0..3

====
